---- MODULE Spec2Model ----
(***************************************************************************)
(* Road Sign ML service: the FastAPI prediction service (src/api/main.py)  *)
(* and the inference pipeline it drives                                    *)
(* (src/ml_pipelines/inference_pipeline.py).                               *)
(*                                                                         *)
(* Processing times are counted in whole clock ticks.  An uploaded file is *)
(* described by its declared content type, whether its bytes decode, and   *)
(* the scene the detector and the OCR engine see in it.                    *)
(***************************************************************************)
EXTENDS Integers, Sequences, FiniteSets, TLC

\* ------------------------------------------------------------------ bounds
NumClients == 2        \* client connections that may have a request in flight
MaxTime == 2           \* largest processing_time a pipeline call measures
MaxPred == 3           \* short requests are accepted while the counters stay below it
MaxSmallBatch == 1     \* longest batch enumerated item by item
MaxCands == 2          \* most candidate boxes in a scene of a direct pipeline call
MaxCoord == 3          \* largest image side; box coordinates range beyond it
MaxHalves == 3         \* padding ratios are 0/2 .. MaxHalves/2
MaxLen == 3            \* longest text given to _postprocess_text
MaxRoi == 11           \* largest height and width of an ROI given to the enhancer
MaxWords == 2          \* most words the OCR engine reports for one ROI

\* ------------------------------------------------------- program constants
MaxBatch == 10         \* main.py:484  len(files) > 10

Clients == 1..NumClients
LibCaller == 0         \* the caller of a direct RoadSignInferencePipeline use
Frames == {LibCaller} \cup Clients
Times == 1..MaxTime

VARIABLES
    started,      \* startup_event has run
    pipeline,     \* main.py global `pipeline`: "None" or "obj"
    yolo_model,   \* pipeline.yolo_model: "None" or "loaded"
    app_stats,    \* main.py global `app_stats`
    loop,         \* client whose handler holds the event-loop thread, 0 = idle
    req,          \* per client: the request in flight and its handler's locals
    frame,        \* per caller: the locals of its pipeline.predict_image call
    okCount,      \* history: predictions the pipeline completed without error
    okDet,        \* history: sum of their detections_count
    okTime,       \* history: sum of their processing_time
    call          \* the latest direct call of one of the pipeline's methods

vars == <<started, pipeline, yolo_model, app_stats, loop, req, frame,
          okCount, okDet, okTime, call>>

\* ------------------------------------------------------------------ inputs
\* A detector candidate: does _validate_detection accept it, does the ROI
\* enhancement raise on it, and how text recognition goes on it: "text" (a
\* text is read and post-processed), "empty" (no word survives) or "raise"
\* (the engine or the post-processing raises).
Candidate(g, e, o) == [geom |-> g, enh |-> e, ocr |-> o]
Candidates == [geom : BOOLEAN, enh : {"ok", "raise"}, ocr : {"text", "empty", "raise"}]

Scene(d, cs) == [det |-> d, cands |-> cs]

CandSeqs(n) == UNION {[1..k -> Candidates] : k \in 0..n}

\* scenes given to a direct pipeline call
LibScenes == [det : {"ok", "raise"}, cands : CandSeqs(MaxCands)]

SceneEmpty == Scene("ok", <<>>)
SceneSigns == Scene("ok", <<Candidate(TRUE, "ok", "text"), Candidate(FALSE, "ok", "empty")>>)
SceneDetRaise == Scene("raise", <<>>)
SceneEnhRaise == Scene("ok", <<Candidate(TRUE, "raise", "empty")>>)
\* the detector reports a box with a value that DetectionResult rejects, such
\* as a confidence that is not a number in [0, 1]
SceneOddRecord == Scene("odd", <<Candidate(TRUE, "ok", "text")>>)

\* a declared content type "major/minor"; UploadFile.content_type may be None
ContentType(major, minor) == [present |-> TRUE, major |-> major, minor |-> minor]
NoContentType == [present |-> FALSE, major |-> "", minor |-> ""]

\* uploaded files
File(ct, data, sc) == [content_type |-> ct, data |-> data, scene |-> sc]
FileSigns == File(ContentType("image", "jpeg"), "image", SceneSigns)
FileEmpty == File(ContentType("image", "png"), "image", SceneEmpty)
FileText == File(ContentType("text", "plain"), "image", SceneEmpty)
FileNoType == File(NoContentType, "image", SceneEmpty)
FileCorrupt == File(ContentType("image", "jpeg"), "garbage", SceneEmpty)
FilePipeErr == File(ContentType("image", "jpeg"), "image", SceneEnhRaise)
FileDetErr == File(ContentType("image", "png"), "image", SceneDetRaise)
FileOddRecord == File(ContentType("image", "png"), "image", SceneOddRecord)

\* the files sent to POST /predict; the image without signs is sent in batches
Files ==
    {FileSigns, FileText, FileNoType, FileCorrupt, FilePipeErr, FileDetErr,
     FileOddRecord}

\* the files short batches are made of
BatchFiles == {FileSigns, FileCorrupt, FilePipeErr}

Repeat(f, n) == [k \in 1..n |-> f]

\* batches: every short one, and long ones around the limit, one of them with
\* an undecodable file, a file of another type and a file whose records the
\* response model rejects among the images
Batches ==
    UNION {[1..k -> BatchFiles] : k \in 1..MaxSmallBatch}
    \cup {Repeat(FileEmpty, MaxBatch), Repeat(FileEmpty, MaxBatch + 1),
          [Repeat(FileEmpty, MaxBatch) EXCEPT ![2] = FileCorrupt,
                                                ![4] = FileOddRecord,
                                                ![5] = FileText]}

\* inputs of pipeline.predict_image: Union[str, np.ndarray, Image.Image], or None
ImageKinds == {"array", "pil", "path", "bad_path", "empty_array", "None"}

\* --------------------------------------------------------------- the state
Stats(n, d, t) ==
    [total_predictions |-> n, total_detections |-> d, total_processing_time |-> t]

\* nothing was emitted to the experiment tracker
NotTracked == [emitted |-> FALSE, meets_performance_target |-> 0]

NoRet == [keys |-> {}, detections_count |-> 0, results |-> <<>>, processing_time |-> 0]

\* the locals of one pipeline.predict_image call
IdleFrame ==
    [stage |-> "IDLE", image |-> "None", scene |-> SceneEmpty, detections |-> <<>>,
     idx |-> 0, roi |-> "none", results |-> <<>>, tracked |-> NotTracked, ret |-> NoRet]

NoInfo ==
    [status |-> "", pipeline_loaded |-> FALSE, pipeline_status |-> "",
     total_predictions |-> 0, total_detections |-> 0, avg_num |-> 0, avg_den |-> 1]

\* a response; calls and touched are history: how often the handler called
\* pipeline.predict_image, and whether app_stats differs from what it was at entry
NoResp ==
    [code |-> 0, detail |-> "", entries |-> <<>>, info |-> NoInfo, calls |-> 0,
     touched |-> FALSE, counted |-> 0]

\* one client's request and the locals of its handler
IdleReq ==
    [st |-> "idle", kind |-> "none", files |-> <<>>, pc |-> "none", i |-> 0,
     results |-> <<>>, tmp |-> 0, calls |-> 0, stats0 |-> Stats(0, 0, 0),
     resp |-> NoResp]

\* no method of the pipeline has been called directly
NoCall == [fn |-> "none"]

\* main.py:50-59: the module is imported, nothing is loaded, nothing is counted
Init ==
    /\ started = FALSE
    /\ pipeline = "None"
    /\ yolo_model = "None"
    /\ app_stats = Stats(0, 0, 0)
    /\ loop = 0
    /\ req = [c \in Clients |-> IdleReq]
    /\ frame = [f \in Frames |-> IdleFrame]
    /\ okCount = 0
    /\ okDet = 0
    /\ okTime = 0
    /\ call = NoCall

\* ------------------------------------------------- loading the pipeline
\* RoadSignInferencePipeline.__init__: _load_config may raise (no object is
\* made); load_models catches its own failure and leaves yolo_model None.
ConstructOutcomes == {"init_raised", "model_load_failed", "loaded"}

PipelineAfter(outcome) == IF outcome = "init_raised" THEN "None" ELSE "obj"

YoloAfter(outcome) == IF outcome = "loaded" THEN "loaded" ELSE "None"

\* faulty variant: initialize_pipeline is run again while the service is up
Startup_Reload ==
    /\ \E outcome \in ConstructOutcomes :
        /\ pipeline' = PipelineAfter(outcome)
        /\ yolo_model' = YoloAfter(outcome)
    /\ started' = TRUE
    /\ UNCHANGED <<call, app_stats, loop, req, frame, okCount, okDet, okTime>>

\* startup_event -> initialize_pipeline
Startup ==
    /\ ~started
    /\ \E outcome \in ConstructOutcomes :
        /\ pipeline' = PipelineAfter(outcome)
        /\ yolo_model' = YoloAfter(outcome)
    /\ started' = TRUE
    /\ UNCHANGED <<call, app_stats, loop, req, frame, okCount, okDet, okTime>>

\* ------------------------------------- RoadSignInferencePipeline.predict_image
NewFrame(image, scene) ==
    [IdleFrame EXCEPT !.stage = "RECEIVED", !.image = image, !.scene = scene]

\* faulty variant: preprocess_image is called before the try block
InTry_AfterPreprocess(stage) == stage # "RECEIVED"

\* Is the statement that runs at this stage inside predict_image's try block?
InTry(stage) == TRUE

\* faulty variant: a candidate whose extraction or enhancement raises is
\* skipped and the loop goes on with the next one
Raise_Skip(fr) ==
    IF fr.stage \in {"EXTRACTED", "ENHANCED"}
    THEN [fr EXCEPT !.stage = "DETECTED", !.roi = "none", !.idx = fr.idx + 1]
    ELSE [fr EXCEPT !.stage = "ERROR"]

\* an exception leaves the statement of the frame's stage
Raise(fr) ==
    IF InTry(fr.stage) THEN [fr EXCEPT !.stage = "ERROR"]
    ELSE [fr EXCEPT !.stage = "RAISED"]

\* preprocess_image: what each kind of input does
PreprocessRaises(image) == image \in {"bad_path", "None", "empty_array"}

\* the positions of the candidates _validate_detection accepts, in detector order
RECURSIVE ValidatedFrom(_, _)
ValidatedFrom(cands, k) ==
    IF k > Len(cands) THEN <<>>
    ELSE IF cands[k].geom THEN <<k>> \o ValidatedFrom(cands, k + 1)
    ELSE ValidatedFrom(cands, k + 1)

\* faulty variant: every box of the detector is kept
Detections_Unfiltered(scene) == [k \in DOMAIN scene.cands |-> k]

\* detect_road_signs: the detections list it returns
Detections(scene) == ValidatedFrom(scene.cands, 1)

\* does detect_road_signs raise?
DetectRaises(scene) == yolo_model = "None" \/ scene.det = "raise"

EmptyOcr == [text |-> "", confidence |-> 0, raw_text |-> "", word_count |-> 0]

\* faulty variant: recognize_text has no try block
RecognizeCatches_Not == FALSE

\* recognize_text: the whole body is in a try block whose except clause
\* returns the empty result
RecognizeCatches == TRUE

\* recognize_text: what it returns when it returns
RecognizeText(engine) ==
    IF engine = "text"
    THEN [text |-> "STOP", confidence |-> 90, raw_text |-> "stop", word_count |-> 1]
    ELSE EmptyOcr

\* faulty variant: _log_prediction_metrics has no try block
LogCatches_Not == FALSE

\* _log_prediction_metrics catches whatever the tracker raises
LogCatches == TRUE

\* target_time = 2.0 seconds; processing times are counted in ticks of two seconds
target_time == 1

\* int(result['processing_time'] <= target_time)
MeetsTarget(processing_time) == IF processing_time <= target_time THEN 1 ELSE 0

\* _log_prediction_metrics: the record the tracker holds when every call of it
\* returned; meets_performance_target is the last metric logged
LogMetrics(result) ==
    [emitted |-> TRUE,
     meets_performance_target |-> MeetsTarget(result.processing_time)]

\* faulty variant: detections_count counts every box of the detector
SuccessRet_RawCount(fr, t) ==
    [keys |-> {"image_shape", "detections_count", "results", "processing_time",
               "pipeline_version"},
     detections_count |-> Len(fr.scene.cands), results |-> fr.results,
     processing_time |-> t]

\* final_result of predict_image
SuccessRet(fr, t) ==
    [keys |-> {"image_shape", "detections_count", "results", "processing_time",
               "pipeline_version"},
     detections_count |-> Len(fr.detections), results |-> fr.results,
     processing_time |-> t]

ErrorRet(t) ==
    [keys |-> {"error", "detections_count", "results", "processing_time"},
     detections_count |-> 0, results |-> <<>>, processing_time |-> t]

PipePreprocess(f) ==
    /\ frame[f].stage = "RECEIVED"
    /\ LET fr == frame[f] IN
        frame' = [frame EXCEPT ![f] =
            IF PreprocessRaises(fr.image) THEN Raise(fr)
            ELSE [fr EXCEPT !.stage = "PREPROCESSED"]]
    /\ UNCHANGED <<call, started, pipeline, yolo_model, app_stats, loop, req,
                   okCount, okDet, okTime>>

PipeDetect(f) ==
    /\ frame[f].stage = "PREPROCESSED"
    /\ LET fr == frame[f] IN
        frame' = [frame EXCEPT ![f] =
            IF DetectRaises(fr.scene) THEN Raise(fr)
            ELSE [fr EXCEPT !.stage = "DETECTED", !.detections = Detections(fr.scene),
                            !.idx = 1, !.results = <<>>]]
    /\ UNCHANGED <<call, started, pipeline, yolo_model, app_stats, loop, req,
                   okCount, okDet, okTime>>

\* the candidate the loop of predict_image is at
CurCand(fr) == fr.scene.cands[fr.detections[fr.idx]]

PipeExtract(f) ==
    /\ frame[f].stage = "DETECTED"
    /\ frame[f].idx <= Len(frame[f].detections)
    /\ frame' = [frame EXCEPT ![f] = [@ EXCEPT !.stage = "EXTRACTED", !.roi = "roi"]]
    /\ UNCHANGED <<call, started, pipeline, yolo_model, app_stats, loop, req,
                   okCount, okDet, okTime>>

PipeEnhance(f) ==
    /\ frame[f].stage = "EXTRACTED"
    /\ LET fr == frame[f] IN
        frame' = [frame EXCEPT ![f] =
            IF CurCand(fr).enh = "raise" THEN Raise(fr)
            ELSE [fr EXCEPT !.stage = "ENHANCED", !.roi = "enhanced"]]
    /\ UNCHANGED <<call, started, pipeline, yolo_model, app_stats, loop, req,
                   okCount, okDet, okTime>>

\* faulty variant: the newest record is put in front of the others
AddResult_Front(results, record) == <<record>> \o results

\* results.append(combined_result)
AddResult(results, record) == Append(results, record)

\* recognize_text and the fusion into a prediction record
PipeRecognize(f) ==
    /\ frame[f].stage = "ENHANCED"
    /\ LET fr == frame[f]
           ocr == RecognizeText(CurCand(fr).ocr) IN
        frame' = [frame EXCEPT ![f] =
            IF CurCand(fr).ocr = "raise" /\ ~RecognizeCatches THEN Raise(fr)
            ELSE [fr EXCEPT !.stage = "DETECTED", !.roi = "none", !.idx = fr.idx + 1,
                            !.results = AddResult(fr.results,
                                                  [pos |-> fr.detections[fr.idx],
                                                   ocr |-> ocr,
                                                   has_text |-> ocr.text # ""])]]
    /\ UNCHANGED <<call, started, pipeline, yolo_model, app_stats, loop, req,
                   okCount, okDet, okTime>>

\* the loop is over: total_time, final_result, _log_prediction_metrics, return
PipeFinish(f) ==
    /\ frame[f].stage = "DETECTED"
    /\ frame[f].idx > Len(frame[f].detections)
    /\ \E t \in Times, tracker \in {"ok", "raise"} :
        LET fr == frame[f] IN
        frame' = [frame EXCEPT ![f] =
            IF tracker = "raise" /\ ~LogCatches THEN Raise(fr)
            ELSE [fr EXCEPT !.stage = "DONE",
                            !.tracked = IF tracker = "ok"
                                        THEN LogMetrics(SuccessRet(fr, t))
                                        ELSE NotTracked,
                            !.ret = SuccessRet(fr, t)]]
    /\ UNCHANGED <<call, started, pipeline, yolo_model, app_stats, loop, req,
                   okCount, okDet, okTime>>

\* the except clause of predict_image
PipeError(f) ==
    /\ frame[f].stage = "ERROR"
    /\ \E t \in Times :
        frame' = [frame EXCEPT ![f] = [@ EXCEPT !.stage = "DONE", !.ret = ErrorRet(t)]]
    /\ UNCHANGED <<call, started, pipeline, yolo_model, app_stats, loop, req,
                   okCount, okDet, okTime>>

PipeStep(f) ==
    \/ PipePreprocess(f)
    \/ PipeDetect(f)
    \/ PipeExtract(f)
    \/ PipeEnhance(f)
    \/ PipeRecognize(f)
    \/ PipeFinish(f)
    \/ PipeError(f)

\* ------------------------------------------------------ the service: helpers
\* Python truthiness of the global `pipeline` (an object without __bool__)
Truthy(p) == p # "None"

\* process_uploaded_file: the check of the declared type
IsImageType(ct) == ct.present /\ ct.major = "image"

\* process_uploaded_file: "none" when it returns an image, else the HTTPException
UploadError(file) ==
    IF ~IsImageType(file.content_type) THEN "Type de fichier non supporte"
    ELSE IF file.data # "image" THEN "Impossible de traiter l'image"
    ELSE "none"

\* faulty variant: handlers run on a thread pool, a new one starts at any time
LoopFree_ThreadPool == TRUE

\* A handler is a coroutine without a single await: once the event loop has
\* entered it, no other handler starts before it returns or raises.
LoopFree == loop = 0

\* the handler of client c has been entered and has not returned
Running(c) == req[c].st = "running"

\* the handler returns or raises: the response goes out
Respond(r, code, detail, entries, info) ==
    [IdleReq EXCEPT !.st = "done", !.kind = r.kind, !.files = r.files,
                    !.resp = [code |-> code, detail |-> detail, entries |-> entries,
                              info |-> info, calls |-> r.calls,
                              touched |-> (app_stats # r.stats0),
                              counted |-> app_stats.total_predictions
                                            - r.stats0.total_predictions]]

\* update_stats: three `app_stats[k] += v`, each a read and then a write
UpdField(pc) ==
    IF pc \in {"upd_load_n", "upd_store_n"} THEN "total_predictions"
    ELSE IF pc \in {"upd_load_d", "upd_store_d"} THEN "total_detections"
    ELSE "total_processing_time"

\* faulty variant: total_detections counts images, not detections
UpdDelta_CountsImages(pc, ret) ==
    IF pc \in {"upd_store_n", "upd_store_d"} THEN 1 ELSE ret.processing_time

UpdDelta(pc, ret) ==
    IF pc = "upd_store_n" THEN 1
    ELSE IF pc = "upd_store_d" THEN ret.detections_count
    ELSE ret.processing_time

UpdNext(pc) ==
    CASE pc = "upd_load_n" -> "upd_store_n"
      [] pc = "upd_store_n" -> "upd_load_d"
      [] pc = "upd_load_d" -> "upd_store_d"
      [] pc = "upd_store_d" -> "upd_load_t"
      [] pc = "upd_load_t" -> "upd_store_t"
      [] pc = "upd_store_t" -> "built"

UpdLoads == {"upd_load_n", "upd_load_d", "upd_load_t"}
UpdStores == {"upd_store_n", "upd_store_d", "upd_store_t"}

\* faulty variant: the handlers never look at the "error" key
IsErrorResult_Ignored(result) == FALSE

\* `'error' in result`: the pipeline returned the error Frame Result
IsErrorResult(result) == "error" \in result.keys

\* the entries of a batch response
SuccessEntry(i, ret) ==
    [success |-> TRUE, form |-> "PredictionResponse", idx |-> i,
     detections_count |-> ret.detections_count]

FailedEntry(i) ==
    [success |-> FALSE, form |-> "PredictionResponse", idx |-> i, detections_count |-> 0]

ErrorEntry(i) ==
    [success |-> FALSE, form |-> "error", idx |-> i, detections_count |-> 0]

\* faulty variant: a batch of exactly the limit is refused too
TooManyItems_OffByOne(files) == Len(files) >= MaxBatch

\* predict_batch: the limit on the size of a batch
TooManyItems(files) == Len(files) > MaxBatch

\* faulty variant: the first failing item ends the loop
AfterItemError_Break(r) == Len(r.files) + 1

\* predict_batch: the except clause of the loop body logs, appends an error
\* entry, and the for loop goes on with the next file
AfterItemError(r) == r.i + 1

\* what clients send
Kinds == {"predict", "batch", "health", "metrics"}

Payloads(kind) ==
    IF kind = "predict" THEN {<<f>> : f \in Files}
    ELSE IF kind = "batch" THEN Batches
    ELSE {<<>>}

\* the counters stay bounded: a long batch is sent to a service that has not
\* counted anything yet, a short request while the counters stay within MaxPred
WithinCap(files) ==
    IF Len(files) > MaxSmallBatch THEN app_stats.total_predictions = 0
    ELSE files = <<>> \/ app_stats.total_predictions + Len(files) <= MaxPred

\* ---------------------------------------------------- the service: requests
\* a client sends a request; the server queues it for the event loop
Submit(c) ==
    /\ started
    /\ req[c].st = "idle"
    /\ \E kind \in Kinds :
        req' = [req EXCEPT ![c] = [IdleReq EXCEPT !.st = "pending", !.kind = kind]]
    /\ UNCHANGED <<call, started, pipeline, yolo_model, app_stats, loop, frame,
                   okCount, okDet, okTime>>

\* The event loop enters the handler of a queued request; the uploaded files
\* are read from the connection here.  The record of a response already sent
\* is history kept for its client: it is collected before the next handler is
\* entered, which leaves every run of the handlers possible.
Accept(c) ==
    /\ LoopFree
    /\ req[c].st = "pending"
    /\ \A o \in Clients : req[o].st # "done"
    /\ \E files \in Payloads(req[c].kind) :
        /\ WithinCap(files)
        /\ req' = [req EXCEPT ![c] = [@ EXCEPT !.st = "running", !.pc = "entry",
                                                !.files = files,
                                                !.stats0 = app_stats]]
    /\ loop' = c
    /\ UNCHANGED <<call, started, pipeline, yolo_model, app_stats, frame,
                   okCount, okDet, okTime>>

\* the client has read the response; the record of it is dropped
Collect(c) ==
    /\ req[c].st = "done"
    /\ req' = [req EXCEPT ![c] = IdleReq]
    /\ UNCHANGED <<call, started, pipeline, yolo_model, app_stats, loop, frame,
                   okCount, okDet, okTime>>

\* POST /predict up to the call of pipeline.predict_image
PredictStart(c) ==
    /\ Running(c) /\ req[c].kind = "predict" /\ req[c].pc = "entry"
    /\ LET file == req[c].files[1]
           err == UploadError(file) IN
        IF pipeline = "None"
        THEN /\ req' = [req EXCEPT ![c] =
                    Respond(@, 503, "Pipeline ML non initialise", <<>>, NoInfo)]
             /\ loop' = 0
             /\ frame' = frame
        ELSE IF err # "none"
        THEN /\ req' = [req EXCEPT ![c] = Respond(@, 400, err, <<>>, NoInfo)]
             /\ loop' = 0
             /\ frame' = frame
        ELSE /\ req' = [req EXCEPT ![c] = [@ EXCEPT !.pc = "in_pipeline",
                                                     !.calls = @ + 1]]
             /\ frame' = [frame EXCEPT ![c] = NewFrame("array", file.scene)]
             /\ loop' = loop
    /\ UNCHANGED <<call, started, pipeline, yolo_model, app_stats, okCount, okDet, okTime>>

\* POST /predict: pipeline.predict_image has returned (or raised)
PredictAfter(c) ==
    /\ Running(c) /\ req[c].kind = "predict" /\ req[c].pc = "in_pipeline"
    /\ frame[c].stage \in {"DONE", "RAISED"}
    /\ IF frame[c].stage = "RAISED"
       THEN /\ req' = [req EXCEPT ![c] = Respond(@, 500, "Erreur interne", <<>>, NoInfo)]
            /\ loop' = 0
            /\ frame' = [frame EXCEPT ![c] = IdleFrame]
            /\ UNCHANGED <<okCount, okDet, okTime>>
       ELSE IF IsErrorResult(frame[c].ret)
       THEN /\ req' = [req EXCEPT ![c] =
                    Respond(@, 500, "Erreur de prediction", <<>>, NoInfo)]
            /\ loop' = 0
            /\ frame' = [frame EXCEPT ![c] = IdleFrame]
            /\ UNCHANGED <<okCount, okDet, okTime>>
       ELSE /\ req' = [req EXCEPT ![c] = [@ EXCEPT !.pc = "upd_load_n"]]
            /\ okCount' = okCount + 1
            /\ okDet' = okDet + frame[c].ret.detections_count
            /\ okTime' = okTime + frame[c].ret.processing_time
            /\ UNCHANGED <<loop, frame>>
    /\ UNCHANGED <<call, started, pipeline, yolo_model, app_stats>>

\* update_stats, one read or one write at a time
UpdateStats(c) ==
    /\ Running(c) /\ req[c].pc \in UpdLoads \cup UpdStores
    /\ LET pc == req[c].pc
           k == UpdField(pc) IN
        IF pc \in UpdLoads
        THEN /\ req' = [req EXCEPT ![c] = [@ EXCEPT !.tmp = app_stats[k],
                                                     !.pc = UpdNext(pc)]]
             /\ app_stats' = app_stats
        ELSE /\ app_stats' = [app_stats EXCEPT ![k] =
                                  req[c].tmp + UpdDelta(pc, frame[c].ret)]
             /\ req' = [req EXCEPT ![c] = [@ EXCEPT !.pc = UpdNext(pc)]]
    /\ UNCHANGED <<call, started, pipeline, yolo_model, loop, frame, okCount, okDet, okTime>>

\* PredictionResponse(success=True, ..., results=result['results'], ...):
\* pydantic validates every record against DetectionResult and raises a
\* ValidationError when one does not fit
ResponseBuilds(fr) == ~(fr.scene.det = "odd" /\ fr.ret.results # <<>>)

\* POST /predict, after update_stats: the response is built and returned, or
\* building it raises and the generic except clause answers 500
PredictRespond(c) ==
    /\ Running(c) /\ req[c].kind = "predict" /\ req[c].pc = "built"
    /\ req' = [req EXCEPT ![c] =
            IF ResponseBuilds(frame[c])
            THEN Respond(@, 200, "", <<SuccessEntry(0, frame[c].ret)>>, NoInfo)
            ELSE Respond(@, 500, "Erreur interne", <<>>, NoInfo)]
    /\ frame' = [frame EXCEPT ![c] = IdleFrame]
    /\ loop' = 0
    /\ UNCHANGED <<call, started, pipeline, yolo_model, app_stats, okCount, okDet, okTime>>

\* POST /predict/batch: the two checks before the loop
BatchStart(c) ==
    /\ Running(c) /\ req[c].kind = "batch" /\ req[c].pc = "entry"
    /\ IF pipeline = "None"
       THEN /\ req' = [req EXCEPT ![c] =
                    Respond(@, 503, "Pipeline ML non initialise", <<>>, NoInfo)]
            /\ loop' = 0
       ELSE IF TooManyItems(req[c].files)
       THEN /\ req' = [req EXCEPT ![c] =
                    Respond(@, 400, "Maximum 10 images par batch", <<>>, NoInfo)]
            /\ loop' = 0
       ELSE /\ req' = [req EXCEPT ![c] = [@ EXCEPT !.pc = "loop", !.i = 1,
                                                    !.results = <<>>]]
            /\ loop' = loop
    /\ UNCHANGED <<call, started, pipeline, yolo_model, app_stats, frame,
                   okCount, okDet, okTime>>

\* the loop body up to the call of pipeline.predict_image
BatchItem(c) ==
    /\ Running(c) /\ req[c].kind = "batch" /\ req[c].pc = "loop"
    /\ req[c].i <= Len(req[c].files)
    /\ LET file == req[c].files[req[c].i] IN
        IF UploadError(file) # "none"
        THEN /\ req' = [req EXCEPT ![c] =
                    [@ EXCEPT !.results = Append(@, ErrorEntry(req[c].i)),
                              !.i = AfterItemError(req[c])]]
             /\ frame' = frame
        ELSE /\ req' = [req EXCEPT ![c] = [@ EXCEPT !.pc = "in_pipeline",
                                                     !.calls = @ + 1]]
             /\ frame' = [frame EXCEPT ![c] = NewFrame("array", file.scene)]
    /\ UNCHANGED <<call, started, pipeline, yolo_model, app_stats, loop,
                   okCount, okDet, okTime>>

\* the loop body after pipeline.predict_image returned (or raised)
BatchAfter(c) ==
    /\ Running(c) /\ req[c].kind = "batch" /\ req[c].pc = "in_pipeline"
    /\ frame[c].stage \in {"DONE", "RAISED"}
    /\ IF frame[c].stage = "RAISED"
       THEN /\ req' = [req EXCEPT ![c] =
                    [@ EXCEPT !.results = Append(@, ErrorEntry(req[c].i)),
                              !.i = AfterItemError(req[c]), !.pc = "loop"]]
            /\ frame' = [frame EXCEPT ![c] = IdleFrame]
            /\ UNCHANGED <<okCount, okDet, okTime>>
       ELSE IF IsErrorResult(frame[c].ret)
       THEN /\ req' = [req EXCEPT ![c] =
                    [@ EXCEPT !.results = Append(@, FailedEntry(req[c].i)),
                              !.i = @ + 1, !.pc = "loop"]]
            /\ frame' = [frame EXCEPT ![c] = IdleFrame]
            /\ UNCHANGED <<okCount, okDet, okTime>>
       ELSE /\ req' = [req EXCEPT ![c] = [@ EXCEPT !.pc = "upd_load_n"]]
            /\ okCount' = okCount + 1
            /\ okDet' = okDet + frame[c].ret.detections_count
            /\ okTime' = okTime + frame[c].ret.processing_time
            /\ frame' = frame
    /\ UNCHANGED <<call, started, pipeline, yolo_model, app_stats, loop>>

\* the loop body after update_stats: the success response of the item is
\* built and appended, or building it raises and the error dict is appended
BatchAppend(c) ==
    /\ Running(c) /\ req[c].kind = "batch" /\ req[c].pc = "built"
    /\ req' = [req EXCEPT ![c] =
            IF ResponseBuilds(frame[c])
            THEN [@ EXCEPT !.results = Append(@, SuccessEntry(req[c].i, frame[c].ret)),
                           !.i = @ + 1, !.pc = "loop"]
            ELSE [@ EXCEPT !.results = Append(@, ErrorEntry(req[c].i)),
                           !.i = AfterItemError(req[c]), !.pc = "loop"]]
    /\ frame' = [frame EXCEPT ![c] = IdleFrame]
    /\ UNCHANGED <<call, started, pipeline, yolo_model, app_stats, loop,
                   okCount, okDet, okTime>>

\* the loop is over: return results
BatchReturn(c) ==
    /\ Running(c) /\ req[c].kind = "batch" /\ req[c].pc = "loop"
    /\ req[c].i > Len(req[c].files)
    /\ req' = [req EXCEPT ![c] = Respond(@, 200, "", req[c].results, NoInfo)]
    /\ loop' = 0
    /\ UNCHANGED <<call, started, pipeline, yolo_model, app_stats, frame,
                   okCount, okDet, okTime>>

\* GET /health
HealthInfo ==
    [NoInfo EXCEPT !.status = IF Truthy(pipeline) THEN "healthy" ELSE "degraded",
                   !.pipeline_loaded = (pipeline # "None"),
                   !.total_predictions = app_stats.total_predictions]

HealthCheck(c) ==
    /\ Running(c) /\ req[c].kind = "health" /\ req[c].pc = "entry"
    /\ req' = [req EXCEPT ![c] = Respond(@, 200, "", <<>>, HealthInfo)]
    /\ loop' = 0
    /\ UNCHANGED <<call, started, pipeline, yolo_model, app_stats, frame,
                   okCount, okDet, okTime>>

\* faulty variant: the average is computed without the guard on the divisor
MetricsInfo_Unguarded ==
    [NoInfo EXCEPT !.total_predictions = app_stats.total_predictions,
                   !.total_detections = app_stats.total_detections,
                   !.avg_num = app_stats.total_processing_time,
                   !.avg_den = app_stats.total_predictions,
                   !.pipeline_status = IF Truthy(pipeline) THEN "loaded"
                                       ELSE "not_loaded"]

\* GET /metrics; average_processing_time is the fraction avg_num / avg_den
MetricsInfo ==
    [NoInfo EXCEPT !.total_predictions = app_stats.total_predictions,
                   !.total_detections = app_stats.total_detections,
                   !.avg_num = IF app_stats.total_predictions > 0
                               THEN app_stats.total_processing_time ELSE 0,
                   !.avg_den = IF app_stats.total_predictions > 0
                               THEN app_stats.total_predictions ELSE 1,
                   !.pipeline_status = IF Truthy(pipeline) THEN "loaded"
                                       ELSE "not_loaded"]

GetMetrics(c) ==
    /\ Running(c) /\ req[c].kind = "metrics" /\ req[c].pc = "entry"
    /\ req' = [req EXCEPT ![c] = Respond(@, 200, "", <<>>, MetricsInfo)]
    /\ loop' = 0
    /\ UNCHANGED <<call, started, pipeline, yolo_model, app_stats, frame,
                   okCount, okDet, okTime>>

\* ------------------------------------------------------- the specification
Next ==
    \/ Startup
    \/ \E c \in Clients :
        \/ Submit(c)
        \/ Accept(c)
        \/ PredictStart(c)
        \/ PredictAfter(c)
        \/ UpdateStats(c)
        \/ PredictRespond(c)
        \/ BatchStart(c)
        \/ BatchItem(c)
        \/ BatchAfter(c)
        \/ BatchAppend(c)
        \/ BatchReturn(c)
        \/ HealthCheck(c)
        \/ GetMetrics(c)
        \/ PipeStep(c)
        \/ Collect(c)

Spec == Init /\ [][Next]_vars

\* ------------------------------------------ the pipeline used as a library
\* RoadSignInferencePipeline(...) called directly (inference_pipeline.main)
LibConstruct ==
    /\ ~started
    /\ pipeline = "None"
    /\ \E outcome \in ConstructOutcomes :
        /\ pipeline' = PipelineAfter(outcome)
        /\ yolo_model' = YoloAfter(outcome)
    /\ UNCHANGED <<call, started, app_stats, loop, req, frame, okCount, okDet, okTime>>

\* pipeline.predict_image(image) on any input
LibCall ==
    /\ pipeline = "obj"
    /\ frame[LibCaller].stage = "IDLE"
    /\ \E image \in ImageKinds, scene \in LibScenes :
        frame' = [frame EXCEPT ![LibCaller] = NewFrame(image, scene)]
    /\ UNCHANGED <<call, started, pipeline, yolo_model, app_stats, loop, req,
                   okCount, okDet, okTime>>

\* the caller has the Frame Result (or the exception)
LibReturn ==
    /\ frame[LibCaller].stage \in {"DONE", "RAISED"}
    /\ frame' = [frame EXCEPT ![LibCaller] = IdleFrame]
    /\ UNCHANGED <<call, started, pipeline, yolo_model, app_stats, loop, req,
                   okCount, okDet, okTime>>

NextPipe ==
    \/ LibConstruct
    \/ LibCall
    \/ PipeStep(LibCaller)
    \/ LibReturn

SpecPipe == Init /\ [][NextPipe]_vars

\* predict_image is straight-line code on one thread: a call that has begun
\* keeps taking its next step
SpecPipeFair == SpecPipe /\ WF_vars(PipeStep(LibCaller))

\* ------------------------------------- the pipeline's methods called directly
\* A float of the configuration that is a ratio is kept as the fraction n/d.
Frac(n, d) == [n |-> n, d |-> d]

\* box coordinates, inside the image and around it
Coords == (0 - 2)..(MaxCoord + 1)

\* image_shape[:2] == (h, w)
Dims == 0..MaxCoord

\* pipeline_config['roi']: min_area and max_aspect_ratio
RoiConfigs == [min_area : {2, 4}, max_aspect_ratio : {Frac(1, 1), Frac(2, 1)}]

Returned(v) == [raised |-> FALSE, value |-> v]

Raised(e) == [raised |-> TRUE, value |-> e]

\* `width / height`: Python raises ZeroDivisionError on a zero divisor
Divide(n, d) == IF d = 0 THEN Raised("ZeroDivisionError") ELSE Returned(Frac(n, d))

\* faulty variant: a box of exactly min_area is rejected too
AreaTooSmall_Inclusive(area, min_area) == area <= min_area

\* _validate_detection: `area < min_area`
AreaTooSmall(area, min_area) == area < min_area

\* _validate_detection: `aspect_ratio > max_aspect_ratio`, float('inf') included
RatioTooLarge(ratio, max_ratio) ==
    ratio.inf \/ ratio.n * max_ratio.d > max_ratio.n * ratio.d

\* _validate_detection(x1, y1, x2, y2, image_shape)
ValidateDetection(x1, y1, x2, y2, h, w, cfg) ==
    IF x1 < 0 \/ y1 < 0 \/ x2 > w \/ y2 > h \/ x1 >= x2 \/ y1 >= y2
    THEN Returned(FALSE)
    ELSE IF AreaTooSmall((x2 - x1) * (y2 - y1), cfg.min_area)
    THEN Returned(FALSE)
    ELSE LET width == x2 - x1
             height == y2 - y1
             quotient == IF height > 0 THEN Divide(width, height)
                         ELSE Returned(Frac(1, 0))
         IN IF quotient.raised THEN quotient
            ELSE LET aspect_ratio ==
                         IF height > 0
                         THEN [inf |-> FALSE, n |-> quotient.value.n,
                               d |-> quotient.value.d]
                         ELSE [inf |-> TRUE, n |-> 1, d |-> 1]
                 IN IF RatioTooLarge(aspect_ratio, cfg.max_aspect_ratio)
                    THEN Returned(FALSE)
                    ELSE Returned(TRUE)

\* pipeline._validate_detection(...) on any box, image shape and configuration
ValidateCall ==
    /\ call = NoCall
    /\ \E x1 \in Coords, y1 \in Coords, x2 \in Coords, y2 \in Coords,
          h \in Dims, w \in Dims, cfg \in RoiConfigs :
        call' = [fn |-> "_validate_detection", x1 |-> x1, y1 |-> y1, x2 |-> x2,
                 y2 |-> y2, h |-> h, w |-> w, cfg |-> cfg,
                 out |-> ValidateDetection(x1, y1, x2, y2, h, w, cfg)]
    /\ UNCHANGED <<started, pipeline, yolo_model, app_stats, loop, req, frame,
                   okCount, okDet, okTime>>

\* pipeline_config['roi']['padding_ratio'], in halves
Ratios == {Frac(k, 2) : k \in 0..MaxHalves}

Max(a, b) == IF a >= b THEN a ELSE b

Min(a, b) == IF a <= b THEN a ELSE b

\* int(size * padding_ratio): int() truncates towards zero
PadOf(size, ratio) ==
    IF size * ratio.n >= 0 THEN (size * ratio.n) \div ratio.d
    ELSE 0 - ((0 - size * ratio.n) \div ratio.d)

\* faulty variant: the padded corner is not clamped to the image origin
ClampLow_None(v) == v

\* extract_roi: `max(0, x1 - pad_w)`
ClampLow(v) == Max(0, v)

\* extract_roi: `min(image.shape[1], x2 + pad_w)`
ClampHigh(v, limit) == Min(limit, v)

\* one end of a basic slice of an axis of length n: a negative index counts
\* from the end, and an index beyond either end stops at that end
SliceEnd(i, n) == IF i < 0 THEN Max(i + n, 0) ELSE Min(i, n)

\* the index range [lo, hi) that `a:b` selects on an axis of length n
Slice(a, b, n) ==
    [lo |-> SliceEnd(a, n), hi |-> Max(SliceEnd(a, n), SliceEnd(b, n))]

\* extract_roi(image, bbox): the rows and columns of the image it returns
ExtractRoi(x1, y1, x2, y2, h, w, padding_ratio) ==
    LET padded == padding_ratio.n > 0
        pad_w == PadOf(x2 - x1, padding_ratio)
        pad_h == PadOf(y2 - y1, padding_ratio)
        px1 == IF padded THEN ClampLow(x1 - pad_w) ELSE x1
        py1 == IF padded THEN ClampLow(y1 - pad_h) ELSE y1
        px2 == IF padded THEN ClampHigh(x2 + pad_w, w) ELSE x2
        py2 == IF padded THEN ClampHigh(y2 + pad_h, h) ELSE y2
    IN Returned([rows |-> Slice(py1, py2, h), cols |-> Slice(px1, px2, w)])

\* roi.shape[0] * roi.shape[1]
RoiArea(roi) == (roi.rows.hi - roi.rows.lo) * (roi.cols.hi - roi.cols.lo)

\* pipeline.extract_roi(image, bbox) on any box, image shape and padding ratio
ExtractCall ==
    /\ call = NoCall
    /\ \E x1 \in Coords, y1 \in Coords, x2 \in Coords, y2 \in Coords,
          h \in Dims, w \in Dims, ratio \in Ratios :
        call' = [fn |-> "extract_roi", x1 |-> x1, y1 |-> y1, x2 |-> x2, y2 |-> y2,
                 h |-> h, w |-> w, ratio |-> ratio,
                 out |-> ExtractRoi(x1, y1, x2, y2, h, w, ratio)]
    /\ UNCHANGED <<started, pipeline, yolo_model, app_stats, loop, req, frame,
                   okCount, okDet, okTime>>

\* A str is the sequence of its characters.
LowerCase ==
    <<"a", "b", "c", "d", "e", "f", "g", "h", "i", "j", "k", "l", "m",
      "n", "o", "p", "q", "r", "s", "t", "u", "v", "w", "x", "y", "z">>

UpperCase ==
    <<"A", "B", "C", "D", "E", "F", "G", "H", "I", "J", "K", "L", "M",
      "N", "O", "P", "Q", "R", "S", "T", "U", "V", "W", "X", "Y", "Z">>

\* str.upper() on one character
UpperChar(ch) ==
    IF \E k \in DOMAIN LowerCase : LowerCase[k] = ch
    THEN UpperCase[CHOOSE k \in DOMAIN LowerCase : LowerCase[k] = ch]
    ELSE ch

\* str.upper()
Upper(str) == [k \in DOMAIN str |-> UpperChar(str[k])]

\* whitespace as str.split() and str.strip() see it
IsSpace(ch) == ch \in {" ", "\t", "\n"}

\* str.split(): the maximal runs of non-whitespace characters, in order
RECURSIVE SplitFrom(_, _, _)
SplitFrom(str, k, word) ==
    IF k > Len(str) THEN (IF word = <<>> THEN <<>> ELSE <<word>>)
    ELSE IF IsSpace(str[k])
    THEN (IF word = <<>> THEN <<>> ELSE <<word>>) \o SplitFrom(str, k + 1, <<>>)
    ELSE SplitFrom(str, k + 1, Append(word, str[k]))

Split(str) == SplitFrom(str, 1, <<>>)

\* ' '.join(parts)
RECURSIVE JoinSpace(_)
JoinSpace(parts) ==
    IF parts = <<>> THEN <<>>
    ELSE IF Len(parts) = 1 THEN parts[1]
    ELSE parts[1] \o <<" ">> \o JoinSpace(Tail(parts))

\* `sub in str`
Contains(sub, str) ==
    \E k \in 0..(Len(str) - Len(sub)) : SubSeq(str, k + 1, k + Len(sub)) = sub

\* re.sub(r'[^\w\s-/]', '', processed): the set holds a range whose lower end
\* is the class \s, which re rejects when it compiles the pattern
\* (re.error: bad character range \s-/), so the call raises on every text
RemoveSpecialChars(str) == Raised("re.error")

\* the loop over known_patterns: the first pattern found in the text, if any
RECURSIVE MatchPattern(_, _)
MatchPattern(known_patterns, processed) ==
    IF known_patterns = <<>> THEN Returned(processed)
    ELSE IF Contains(Upper(Head(known_patterns)), Upper(processed))
    THEN Returned(Upper(Head(known_patterns)))
    ELSE MatchPattern(Tail(known_patterns), processed)

\* _postprocess_text(text) under ocr_config['postprocessing']
PostprocessText(text, cfg) ==
    IF text = <<>> THEN Returned(<<>>)
    ELSE LET stripped == IF cfg.remove_special_chars THEN RemoveSpecialChars(text)
                         ELSE Returned(text)
         IN IF stripped.raised THEN stripped
            ELSE MatchPattern(cfg.known_patterns,
                              Upper(JoinSpace(Split(stripped.value))))

\* the characters of the texts that are enumerated
Chars == {"s", "T", " ", "!"}

Texts == UNION {[1..k -> Chars] : k \in 0..MaxLen}

\* ocr_config['postprocessing']
PostConfigs ==
    [remove_special_chars : BOOLEAN,
     known_patterns : {<<>>, << <<"S", "T">>, <<"T">> >>, << <<"t">>, <<"S">> >>,
                       << <<"s", " ">> >>}]

\* pipeline._postprocess_text(text) on any text and configuration
PostprocessCall ==
    /\ call = NoCall
    /\ \E text \in Texts, cfg \in PostConfigs :
        call' = [fn |-> "_postprocess_text", text |-> text, cfg |-> cfg,
                 out |-> PostprocessText(text, cfg)]
    /\ UNCHANGED <<started, pipeline, yolo_model, app_stats, loop, req, frame,
                   okCount, okDet, okTime>>

\* str.strip()
RECURSIVE Strip(_)
Strip(str) ==
    IF str = <<>> THEN <<>>
    ELSE IF IsSpace(Head(str)) THEN Strip(Tail(str))
    ELSE IF IsSpace(str[Len(str)]) THEN Strip(SubSeq(str, 1, Len(str) - 1))
    ELSE str

\* recognize_text: `if word.strip():` and `if conf > 0:`
WordKept(word) == Strip(word.text) # <<>> /\ word.conf > 0

\* text_parts: the stripped words that are kept, in engine order
RECURSIVE TextParts(_)
TextParts(words) ==
    IF words = <<>> THEN <<>>
    ELSE IF WordKept(Head(words))
    THEN <<Strip(Head(words).text)>> \o TextParts(Tail(words))
    ELSE TextParts(Tail(words))

\* sum(confidences)
RECURSIVE SumConf(_)
SumConf(words) ==
    IF words = <<>> THEN 0
    ELSE (IF WordKept(Head(words)) THEN Head(words).conf ELSE 0)
         + SumConf(Tail(words))

\* the result of the except clause of recognize_text
EmptyRecognition ==
    [text |-> <<>>, confidence |-> Frac(0, 1), raw_text |-> <<>>, word_count |-> 0]

\* recognize_text(roi): engine is what pytesseract.image_to_data does on the
\* ROI; whatever is raised inside the try block ends in the except clause
RecognizeWords(engine, cfg) ==
    IF engine.raises THEN EmptyRecognition
    ELSE LET text_parts == TextParts(engine.words)
             text == JoinSpace(text_parts)
             avg_confidence ==
                 IF text_parts = <<>> THEN Frac(0, 1)
                 ELSE Frac(SumConf(engine.words), 100 * Len(text_parts))
             processed_text == PostprocessText(text, cfg)
         IN IF processed_text.raised THEN EmptyRecognition
            ELSE [text |-> processed_text.value, confidence |-> avg_confidence,
                  raw_text |-> text, word_count |-> Len(text_parts)]

\* the words data['text'][i], data['conf'][i] of the engine
EngineWords ==
    [text : {<<>>, <<" ">>, <<"s">>, <<" ", "T", " ">>, <<"s", "!">>},
     conf : {0 - 1, 0, 60, 90}]

EngineOutputs ==
    {[raises |-> TRUE, words |-> <<>>]}
    \cup {[raises |-> FALSE, words |-> ws] :
             ws \in UNION {[1..k -> EngineWords] : k \in 0..MaxWords}}

\* pipeline.recognize_text(roi) on any engine behaviour and configuration
RecognizeCall ==
    /\ call = NoCall
    /\ \E engine \in EngineOutputs, cfg \in PostConfigs :
        call' = [fn |-> "recognize_text", engine |-> engine, cfg |-> cfg,
                 out |-> Returned(RecognizeWords(engine, cfg))]
    /\ UNCHANGED <<started, pipeline, yolo_model, app_stats, loop, req, frame,
                   okCount, okDet, okTime>>

\* The detector reports float coordinates; the model gives them in half pixels.
HalfCoords == (0 - 1)..(2 * MaxCoord + 1)

\* pipeline_config['roi'] of a detect_road_signs call
DetectConfigs == [min_area : {1, 2}, max_aspect_ratio : {Frac(2, 1)}]

\* _validate_detection on coordinates in half pixels: its comparisons are those
\* of ValidateDetection with the lengths doubled and the area quadrupled
ValidateHalves(a1, b1, a2, b2, h, w, cfg) ==
    ValidateDetection(a1, b1, a2, b2, 2 * h, 2 * w,
                      [cfg EXCEPT !.min_area = 4 * cfg.min_area])

\* int(x) of a coordinate of a half pixels: truncation toward zero
IntOfHalves(a) == IF a >= 0 THEN a \div 2 ELSE 0 - ((0 - a) \div 2)

\* detect_road_signs on an image of shape (h, w) in which the detector reports
\* the boxes given: the 'bbox' entries of the detections list
RECURSIVE DetectFrom(_, _, _, _, _)
DetectFrom(boxes, k, h, w, cfg) ==
    IF k > Len(boxes) THEN Returned(<<>>)
    ELSE LET box == boxes[k]
             valid == ValidateHalves(box[1], box[2], box[3], box[4], h, w, cfg)
             rest == DetectFrom(boxes, k + 1, h, w, cfg)
         IN IF valid.raised THEN valid
            ELSE IF rest.raised THEN rest
            ELSE IF valid.value
            THEN Returned(<<[x1 |-> IntOfHalves(box[1]), y1 |-> IntOfHalves(box[2]),
                             x2 |-> IntOfHalves(box[3]), y2 |-> IntOfHalves(box[4])]>>
                          \o rest.value)
            ELSE rest

DetectRoadSigns(boxes, h, w, cfg) == DetectFrom(boxes, 1, h, w, cfg)

\* pipeline.detect_road_signs(image) with a loaded detector that reports one box
DetectCall ==
    /\ call = NoCall
    /\ \E a1 \in HalfCoords, b1 \in HalfCoords, a2 \in HalfCoords, b2 \in HalfCoords,
          h \in Dims, w \in Dims, cfg \in DetectConfigs :
        call' = [fn |-> "detect_road_signs", boxes |-> <<<<a1, b1, a2, b2>>>>,
                 h |-> h, w |-> w, cfg |-> cfg,
                 out |-> DetectRoadSigns(<<<<a1, b1, a2, b2>>>>, h, w, cfg)]
    /\ UNCHANGED <<started, pipeline, yolo_model, app_stats, loop, req, frame,
                   okCount, okDet, okTime>>

\* ---- Python floats: IEEE 754 doubles, kept as a significand of at most
\* Precision bits (most significant first) and the number of those bits that
\* lie behind the binary point: the value is FromBits(bits) / 2^frac.
Precision == 53

\* the binary digits of a natural number, most significant first
RECURSIVE ToBits(_)
ToBits(n) == IF n = 0 THEN <<>> ELSE ToBits(n \div 2) \o <<n % 2>>

\* the natural number with the given binary digits
RECURSIVE FromBits(_)
FromBits(bits) ==
    IF bits = <<>> THEN 0
    ELSE 2 * FromBits(SubSeq(bits, 1, Len(bits) - 1)) + bits[Len(bits)]

\* 2^k modulo d, by repeated squaring
RECURSIVE Pow2Mod(_, _)
Pow2Mod(k, d) ==
    IF k = 0 THEN 1 % d
    ELSE LET half == Pow2Mod(k \div 2, d)
         IN (half * half * (IF k % 2 = 1 THEN 2 ELSE 1)) % d

\* the next count binary digits of r / d behind the point (r < d), and what
\* remains: digit k is set when twice the remainder before it reaches d
FracBits(r, d, count) ==
    [bits |-> [k \in 1..count |->
                 IF 2 * ((r * Pow2Mod(k - 1, d)) % d) >= d THEN 1 ELSE 0],
     rem |-> (r * Pow2Mod(count, d)) % d]

\* the digits of the number plus one
Inc(bits) ==
    LET zeros == {k \in DOMAIN bits : bits[k] = 0} IN
    IF zeros = {} THEN <<1>> \o [k \in DOMAIN bits |-> 0]
    ELSE LET last == CHOOSE k \in zeros : \A j \in zeros : j <= k
         IN [k \in DOMAIN bits |->
                IF k < last THEN bits[k] ELSE IF k = last THEN 1 ELSE 0]

\* the digits without leading zeros
Significant(bits) ==
    LET ones == {k \in DOMAIN bits : bits[k] = 1} IN
    IF ones = {} THEN <<>>
    ELSE SubSeq(bits, CHOOSE k \in ones : \A j \in ones : k <= j, Len(bits))

\* round-half-to-even of an exact result to Precision digits; sticky says
\* that the exact result has non-zero digits behind those given
RoundNearestEven(digits, frac, sticky) ==
    LET bits == Significant(digits)
        drop == Len(bits) - Precision
    IN IF drop <= 0 THEN [bits |-> bits, frac |-> frac]
       ELSE LET kept == SubSeq(bits, 1, Precision)
                guard == bits[Precision + 1]
                rest == sticky \/ \E k \in (Precision + 2)..Len(bits) : bits[k] = 1
                up == guard = 1 /\ (rest \/ kept[Precision] = 1)
                q == IF up THEN Inc(kept) ELSE kept
            IN IF Len(q) > Precision
               THEN [bits |-> SubSeq(q, 1, Precision), frac |-> frac - drop - 1]
               ELSE [bits |-> q, frac |-> frac - drop]

\* n / d for ints n >= d > 0: the correctly rounded quotient
FloatDiv(n, d) ==
    LET whole == ToBits(n \div d)
        count == Precision + 2 - Len(whole)
        behind == FracBits(n % d, d, count)
    IN RoundNearestEven(whole \o behind.bits, count, behind.rem # 0)

\* the significand is multiplied in groups of GroupBits digits, each group a
\* natural number small enough for its product to be computed directly
GroupBits == 13

\* the lowest len binary digits of a natural number
PadBits(n, len) == [k \in 1..len |-> (n \div 2^(len - k)) % 2]

\* the groups of a digit sequence, from the most significant, the first one
\* filled up with leading zeros
Groups(bits) ==
    LET count == (Len(bits) + GroupBits - 1) \div GroupBits
        padded == [k \in 1..(count * GroupBits - Len(bits)) |-> 0] \o bits
    IN [g \in 1..count |->
           FromBits(SubSeq(padded, (g - 1) * GroupBits + 1, g * GroupBits))]

\* the digits of the grouped number times a natural number, carry added
RECURSIVE MulGroups(_, _, _)
MulGroups(groups, n, carry) ==
    IF groups = <<>> THEN ToBits(carry)
    ELSE LET t == groups[Len(groups)] * n + carry
         IN MulGroups(SubSeq(groups, 1, Len(groups) - 1), n, t \div 2^GroupBits)
                \o PadBits(t % 2^GroupBits, GroupBits)

\* the digits of the number times a natural number
MulFrom(bits, n, carry) == MulGroups(Groups(bits), n, carry)

\* n * x for an int n and a float x: the correctly rounded product
FloatMulInt(n, x) == RoundNearestEven(MulFrom(x.bits, n, 0), x.frac, FALSE)

\* int(x) of a non-negative float
FloatToInt(x) ==
    LET bits == Significant(x.bits) IN
    IF Len(bits) <= x.frac THEN 0
    ELSE FromBits(SubSeq(bits, 1, Len(bits) - x.frac))

\* scale_factor = min_height / current_height;
\* new_width = int(preprocessed.shape[1] * scale_factor)
NewWidth(width, min_height, current_height) ==
    FloatToInt(FloatMulInt(width, FloatDiv(min_height, current_height)))

\* ocr_config['preprocessing']['min_height'] values that are enumerated
MinHeights == {4, 15, 32}

\* the ROIs given to preprocess_roi_for_ocr: shape (h, w) or (h, w, 3), and
\* whether np.mean of the buffer is below 100
Rois == [h : 0..MaxRoi, w : 0..MaxRoi, dims : {2, 3}, dark : BOOLEAN]

\* ocr_config['preprocessing']
EnhanceConfigs ==
    [min_height : MinHeights, denoise : BOOLEAN, contrast_enhancement : BOOLEAN,
     brightness_adjustment : BOOLEAN, threshold_method : {"adaptive", "otsu", "none"}]

\* the steps of preprocess_roi_for_ocr that run before the resize, in order
StepsBeforeResize(roi, cfg) ==
    (IF roi.dims = 3 THEN <<"grayscale">> ELSE <<>>)
    \o (IF cfg.denoise THEN <<"denoise">> ELSE <<>>)
    \o (IF cfg.contrast_enhancement THEN <<"contrast">> ELSE <<>>)
    \o (IF cfg.brightness_adjustment /\ roi.dark THEN <<"brightness">> ELSE <<>>)

\* preprocess_roi_for_ocr(roi) under ocr_config['preprocessing']: the shape of
\* the buffer returned and the steps applied to it; every cv2 call rejects an
\* empty array
EnhanceRoi(roi, cfg) ==
    LET empty == roi.h = 0 \/ roi.w = 0
        before == StepsBeforeResize(roi, cfg)
        resize == roi.h < cfg.min_height
        new_width == NewWidth(roi.w, cfg.min_height, roi.h)
        binarize == cfg.threshold_method \in {"adaptive", "otsu"}
    IN IF empty /\ (roi.dims = 3 \/ cfg.denoise \/ cfg.contrast_enhancement)
       THEN Raised("cv2.error")
       ELSE IF resize /\ roi.h = 0 THEN Raised("ZeroDivisionError")
       ELSE IF empty /\ (resize \/ binarize) THEN Raised("cv2.error")
       ELSE Returned([h |-> IF resize THEN cfg.min_height ELSE roi.h,
                      w |-> IF resize THEN new_width ELSE roi.w,
                      channels |-> 1,
                      steps |-> before
                                \o (IF resize THEN <<"resize">> ELSE <<>>)
                                \o (IF binarize THEN <<"threshold">> ELSE <<>>)])

\* pipeline.preprocess_roi_for_ocr(roi) on any ROI and configuration
EnhanceCall ==
    /\ call = NoCall
    /\ \E roi \in Rois, cfg \in EnhanceConfigs :
        call' = [fn |-> "preprocess_roi_for_ocr", roi |-> roi, cfg |-> cfg,
                 out |-> EnhanceRoi(roi, cfg)]
    /\ UNCHANGED <<started, pipeline, yolo_model, app_stats, loop, req, frame,
                   okCount, okDet, okTime>>

\* the caller has the value (or the exception) of the method it called
MethodReturn ==
    /\ call # NoCall
    /\ call' = NoCall
    /\ UNCHANGED <<started, pipeline, yolo_model, app_stats, loop, req, frame,
                   okCount, okDet, okTime>>

NextMethods ==
    \/ ValidateCall
    \/ ExtractCall
    \/ PostprocessCall
    \/ RecognizeCall
    \/ DetectCall
    \/ EnhanceCall
    \/ MethodReturn

SpecMethods == Init /\ [][NextMethods]_vars

\* ================================================================== claims
StatKeys == {"total_predictions", "total_detections", "total_processing_time"}

\* the program counters of a handler inside update_stats before field k is written
BeforeStore(k) ==
    IF k = "total_predictions" THEN {"upd_load_n", "upd_store_n"}
    ELSE IF k = "total_detections"
    THEN {"upd_load_n", "upd_store_n", "upd_load_d", "upd_store_d"}
    ELSE UpdLoads \cup UpdStores

\* what the handler of client c has still to add to field k
Owed(c, k) ==
    IF Running(c) /\ req[c].pc \in BeforeStore(k)
    THEN (IF k = "total_predictions" THEN 1
          ELSE IF k = "total_detections" THEN frame[c].ret.detections_count
          ELSE frame[c].ret.processing_time)
    ELSE 0

RECURSIVE OwedBy(_, _)
OwedBy(S, k) ==
    IF S = {} THEN 0
    ELSE LET c == CHOOSE x \in S : TRUE IN Owed(c, k) + OwedBy(S \ {c}, k)

\* no handler is inside update_stats
UpdatesSettled == \A c \in Clients : req[c].pc \notin UpdLoads \cup UpdStores

HistoryStats == Stats(okCount, okDet, okTime)

\* C1: after any sequence of operations in which N predictions succeeded with
\* detection counts d_i and times t_i, the counters are (N, sum d_i, sum t_i);
\* every update adds exactly (1, d, t) and no step decreases or resets a counter.
C1_StatsAccumulate ==
    /\ [](UpdatesSettled => app_stats = HistoryStats)
    /\ [][\A k \in StatKeys : app_stats'[k] >= app_stats[k]]_vars

C1_Witness ==
    /\ UpdatesSettled
    /\ app_stats.total_predictions >= 2
    /\ app_stats.total_detections >= 1
    /\ app_stats.total_processing_time > app_stats.total_predictions
    /\ \E c \in Clients :
        /\ req[c].st = "done" /\ req[c].kind = "batch"
        /\ \E k \in DOMAIN req[c].resp.entries : req[c].resp.entries[k].success

\* C2: under every interleaving of in-flight prediction requests no update of
\* the counters is lost: each counter plus what the handlers inside
\* update_stats have still to add is the sum over the successful predictions.
C2_NoLostUpdate ==
    \A k \in StatKeys : app_stats[k] + OwedBy(Clients, k) = HistoryStats[k]

C2_Witness ==
    \E c, o \in Clients :
        /\ c # o
        /\ Running(c) /\ req[c].pc = "upd_store_t"
        /\ req[o].st = "pending" /\ req[o].kind \in {"predict", "batch"}
        /\ app_stats.total_predictions >= 2

\* a prediction handler is inside its blocking pipeline.predict_image call
InBlockingCall(c) ==
    /\ Running(c) /\ req[c].pc = "in_pipeline"
    /\ frame[c].stage \notin {"DONE", "RAISED"}

\* C3: while a prediction request is inside its blocking pipeline call, a
\* health or metrics query that has arrived can be accepted (and so answered)
\* before that prediction finishes.
C3_QueriesNotStalled ==
    \A c, q \in Clients :
        (/\ InBlockingCall(c)
         /\ req[q].st = "pending" /\ req[q].kind \in {"health", "metrics"})
        => ENABLED Accept(q)

\* C4: whenever no detector model is loaded, health() answers "degraded" and
\* metrics() a pipeline_status other than "loaded", both without raising;
\* health() answers "healthy" only when a detector model is loaded.
C4_DegradedHealth ==
    \A c \in Clients :
        req[c].st = "done" =>
            /\ req[c].kind = "health" =>
                /\ req[c].resp.code = 200
                /\ req[c].resp.info.status = "healthy" <=> yolo_model = "loaded"
                /\ req[c].resp.info.status \in {"healthy", "degraded"}
            /\ req[c].kind = "metrics" =>
                /\ req[c].resp.code = 200
                /\ yolo_model # "loaded" => req[c].resp.info.pipeline_status # "loaded"

\* C5: a prediction request (single or batch) made while no detector model is
\* loaded is always answered with a 503 response.
C5_Unavailable503 ==
    \A c \in Clients :
        (/\ req[c].st = "done" /\ req[c].kind \in {"predict", "batch"}
         /\ yolo_model # "loaded")
        => req[c].resp.code = 503

\* a batch response has been sent to client c
BatchDone(c) == req[c].st = "done" /\ req[c].kind = "batch"

\* the files of a batch that process_uploaded_file turns into an image
Decodable(files) == {k \in DOMAIN files : UploadError(files[k]) = "none"}

\* C6 as stated: a batch of more than 10 items is rejected wholesale (no
\* pipeline call, counters unchanged); a batch of 1 to 10 items attempts every
\* item and returns exactly one entry per input item.
C6_BatchLimit_Stated ==
    \A c \in Clients :
        BatchDone(c) =>
            LET n == Len(req[c].files) IN
            /\ n > 10 =>
                /\ req[c].resp.code # 200 /\ req[c].resp.entries = <<>>
                /\ req[c].resp.calls = 0 /\ ~req[c].resp.touched
            /\ n \in 1..10 =>
                /\ req[c].resp.code = 200
                /\ Len(req[c].resp.entries) = n
                /\ req[c].resp.calls = Cardinality(Decodable(req[c].files))

\* C6 (amended): a batch of more than 10 items is rejected wholesale (no
\* pipeline call, counters unchanged); a batch of 1 to 10 items sent to a
\* service whose pipeline object exists attempts every item and returns
\* exactly one entry per input item.
C6_BatchLimit ==
    \A c \in Clients :
        BatchDone(c) =>
            LET n == Len(req[c].files) IN
            /\ n > 10 =>
                /\ req[c].resp.code # 200 /\ req[c].resp.entries = <<>>
                /\ req[c].resp.calls = 0 /\ ~req[c].resp.touched
            /\ (n \in 1..10 /\ pipeline # "None") =>
                /\ req[c].resp.code = 200
                /\ Len(req[c].resp.entries) = n
                /\ req[c].resp.calls = Cardinality(Decodable(req[c].files))

C6_Witness ==
    \E c \in Clients :
        /\ BatchDone(c) /\ Len(req[c].files) = 10
        /\ req[c].resp.code = 200 /\ Len(req[c].resp.entries) = 10
        /\ req[c].resp.calls = 10 /\ req[c].resp.touched

\* C7: a batch of more than 10 items always receives a single 400 rejection
\* ("Maximum 10 images par batch"), whatever the state of the service.
C7_TooManyIs400 ==
    \A c \in Clients :
        (BatchDone(c) /\ Len(req[c].files) > 10) =>
            /\ req[c].resp.code = 400
            /\ req[c].resp.detail = "Maximum 10 images par batch"

\* does pipeline.predict_image end in its except clause on this scene?
SceneFails(scene) ==
    \/ DetectRaises(scene)
    \/ \E k \in DOMAIN scene.cands : scene.cands[k].geom /\ scene.cands[k].enh = "raise"

\* the pipeline's records for the scene do not fit the response model
RecordRejected(scene) ==
    scene.det = "odd" /\ \E k \in DOMAIN scene.cands : scene.cands[k].geom

\* the item of a batch fails: bad content type, undecodable bytes, pipeline error
ItemFails(file) == UploadError(file) # "none" \/ SceneFails(file.scene)

\* C8: in an accepted batch of N items the response has N entries, entry k is
\* that of input k, a failing item (one that fails before the pipeline, in it,
\* or when its response is built) yields an error entry at its position, and
\* every valid item has a success entry, whatever failed before it.
C8_BatchIsolation ==
    \A c \in Clients :
        (BatchDone(c) /\ req[c].resp.code = 200) =>
            /\ Len(req[c].resp.entries) = Len(req[c].files)
            /\ \A k \in DOMAIN req[c].files :
                /\ req[c].resp.entries[k].idx = k
                /\ req[c].resp.entries[k].success
                      <=> ~(\/ ItemFails(req[c].files[k])
                            \/ RecordRejected(req[c].files[k].scene))

C8_Witness ==
    \E c \in Clients :
        /\ BatchDone(c) /\ req[c].resp.code = 200
        /\ Len(req[c].files) >= 3
        /\ ItemFails(req[c].files[2]) /\ ~req[c].resp.entries[2].success
        /\ req[c].resp.entries[1].success /\ req[c].resp.entries[3].success

\* C9: a single-prediction request whose declared content type is missing or
\* does not start with image/ is always answered with a 400 rejection
\* ("Type de fichier non supporte"), and the pipeline is never called for it.
C9_BadTypeIs400 ==
    \A c \in Clients :
        (/\ req[c].st = "done" /\ req[c].kind = "predict"
         /\ ~IsImageType(req[c].files[1].content_type))
        => /\ req[c].resp.code = 400
           /\ req[c].resp.detail = "Type de fichier non supporte"
           /\ req[c].resp.calls = 0

\* the pipeline is called for this file and returns the error Frame Result
PipelineErrs(file) ==
    pipeline # "None" /\ UploadError(file) = "none" /\ SceneFails(file.scene)

\* C11: when the pipeline returns the error Frame Result, a single request is
\* answered 500 and a batch item gets a success=false entry; update_stats is
\* entered only with a success result, so a request all of whose pipeline calls
\* ended in error leaves the three counters as they were when it was accepted.
C11_PipelineErrorKeepsStats ==
    \A c \in Clients :
        /\ (Running(c) /\ req[c].pc \in UpdLoads \cup UpdStores \cup {"built"})
               => "error" \notin frame[c].ret.keys
        /\ (Running(c) /\ req[c].pc = "in_pipeline" /\ frame[c].stage = "DONE"
             /\ req[c].kind = "predict" /\ "error" \in frame[c].ret.keys)
               => app_stats = req[c].stats0
        /\ (req[c].st = "done" /\ req[c].kind = "predict"
             /\ PipelineErrs(req[c].files[1]))
               => /\ req[c].resp.code = 500
                  /\ req[c].resp.detail = "Erreur de prediction"
                  /\ ~req[c].resp.touched
        /\ (BatchDone(c) /\ req[c].resp.code = 200)
               => /\ \A k \in DOMAIN req[c].files :
                        PipelineErrs(req[c].files[k])
                            => req[c].resp.entries[k] = FailedEntry(k)
                  /\ (\A k \in DOMAIN req[c].files : ItemFails(req[c].files[k]))
                        => ~req[c].resp.touched

C11_Witness ==
    /\ app_stats.total_predictions >= 1
    /\ yolo_model = "loaded"
    /\ \E c \in Clients :
        /\ req[c].st = "done" /\ req[c].kind = "predict"
        /\ PipelineErrs(req[c].files[1])
        /\ req[c].resp.code = 500 /\ req[c].resp.calls = 1 /\ ~req[c].resp.touched

\* C12: metrics() reports average_processing_time equal to
\* total_processing_time / total_predictions when total_predictions > 0 and
\* exactly 0 when total_predictions = 0; the divisor it uses is never zero and
\* the query answers 200.
C12_MetricsAverage ==
    \A c \in Clients :
        (req[c].st = "done" /\ req[c].kind = "metrics") =>
            LET info == req[c].resp.info IN
            /\ req[c].resp.code = 200
            /\ info.avg_den # 0
            /\ info.total_predictions = app_stats.total_predictions
            /\ app_stats.total_predictions > 0 =>
                  info.avg_num * app_stats.total_predictions
                      = app_stats.total_processing_time * info.avg_den
            /\ app_stats.total_predictions = 0 => info.avg_num = 0

C12_Witness ==
    \E c \in Clients :
        /\ req[c].st = "done" /\ req[c].kind = "metrics"
        /\ app_stats.total_predictions = 2
        /\ app_stats.total_processing_time = 3
        /\ req[c].resp.info.avg_num = 3 /\ req[c].resp.info.avg_den = 2

\* the test configuration: min_area 100, max_aspect_ratio 5.0
TestRoiConfig == [min_area |-> 100, max_aspect_ratio |-> Frac(5, 1)]

\* C13: _validate_detection returns a boolean without raising for every box
\* and image shape, and returns True exactly when 0 <= x1 < x2 <= w,
\* 0 <= y1 < y2 <= h, (x2-x1)*(y2-y1) >= min_area and
\* (x2-x1)/(y2-y1) <= max_aspect_ratio; (50,50,55,55) and (50,50,350,100) in a
\* 200x300 image with min_area 100 and max_aspect_ratio 5.0 are rejected.
C13_ValidatorTotalExact ==
    /\ call.fn = "_validate_detection" =>
        /\ ~call.out.raised
        /\ call.out.value \in BOOLEAN
        /\ call.out.value <=>
              /\ 0 <= call.x1 /\ call.x1 < call.x2 /\ call.x2 <= call.w
              /\ 0 <= call.y1 /\ call.y1 < call.y2 /\ call.y2 <= call.h
              /\ (call.x2 - call.x1) * (call.y2 - call.y1) >= call.cfg.min_area
              /\ (call.x2 - call.x1) * call.cfg.max_aspect_ratio.d
                    <= call.cfg.max_aspect_ratio.n * (call.y2 - call.y1)
    /\ ValidateDetection(50, 50, 55, 55, 200, 300, TestRoiConfig) = Returned(FALSE)
    /\ ValidateDetection(50, 50, 350, 100, 200, 300, TestRoiConfig) = Returned(FALSE)
    /\ ValidateDetection(50, 50, 150, 100, 200, 300, TestRoiConfig) = Returned(TRUE)

C13_Witness ==
    /\ call.fn = "_validate_detection"
    /\ call.out = Returned(TRUE)
    /\ (call.x2 - call.x1) * (call.y2 - call.y1) = call.cfg.min_area
    /\ call.x2 - call.x1 = 2 * (call.y2 - call.y1)

\* the box of the latest extract_roi call lies inside the image
BoxInsideImage ==
    /\ 0 <= call.x1 /\ call.x1 <= call.x2 /\ call.x2 <= call.w
    /\ 0 <= call.y1 /\ call.y1 <= call.y2 /\ call.y2 <= call.h

\* C14: for a box inside the image and any padding_ratio >= 0, extract_roi does
\* not raise and returns the columns [max(0,x1-pad_w), min(W,x2+pad_w)) and the
\* rows [max(0,y1-pad_h), min(H,y2+pad_h)), pad = floor(size*padding_ratio); the
\* region lies within the image, contains the box, and is the box when
\* padding_ratio is 0.
C14_RoiRegion ==
    (call.fn = "extract_roi" /\ BoxInsideImage) =>
        LET pad_w == ((call.x2 - call.x1) * call.ratio.n) \div call.ratio.d
            pad_h == ((call.y2 - call.y1) * call.ratio.n) \div call.ratio.d
            roi == call.out.value
        IN /\ ~call.out.raised
           /\ roi.cols = [lo |-> Max(0, call.x1 - pad_w),
                          hi |-> Min(call.w, call.x2 + pad_w)]
           /\ roi.rows = [lo |-> Max(0, call.y1 - pad_h),
                          hi |-> Min(call.h, call.y2 + pad_h)]
           /\ 0 <= roi.cols.lo /\ roi.cols.hi <= call.w
           /\ 0 <= roi.rows.lo /\ roi.rows.hi <= call.h
           /\ roi.cols.lo <= call.x1 /\ call.x2 <= roi.cols.hi
           /\ roi.rows.lo <= call.y1 /\ call.y2 <= roi.rows.hi
           /\ call.ratio.n = 0 =>
                 /\ roi.rows.hi - roi.rows.lo = call.y2 - call.y1
                 /\ roi.cols.hi - roi.cols.lo = call.x2 - call.x1

C14_Witness ==
    /\ call.fn = "extract_roi" /\ BoxInsideImage
    /\ call.x1 = 1 /\ call.x2 = call.w - 1 /\ call.x2 - call.x1 >= 1
    /\ call.y1 < call.y2
    /\ call.ratio.n > call.ratio.d
    /\ call.out.value.cols = [lo |-> 0, hi |-> call.w]

C16_NormalizerIdempotent ==
    call.fn = "_postprocess_text" =>
        /\ ~call.out.raised
        /\ PostprocessText(call.out.value, call.cfg) = call.out

\* the characters remove_special_chars is meant to keep: \w, \s, - and /
KeptChar(ch) ==
    \/ \E k \in DOMAIN LowerCase : ch \in {LowerCase[k], UpperCase[k]}
    \/ ch \in {"0", "1", "2", "3", "4", "5", "6", "7", "8", "9", "_", "-", "/"}
    \/ IsSpace(ch)

\* the cleaned, upper-cased text of the latest _postprocess_text call
CleanedUpper(text, cfg) ==
    Upper(JoinSpace(Split(IF cfg.remove_special_chars
                          THEN SelectSeq(text, KeptChar) ELSE text)))

\* the test configuration: remove_special_chars, patterns STOP and YIELD
TestPostConfig ==
    [remove_special_chars |-> TRUE,
     known_patterns |-> << <<"S", "T", "O", "P">>, <<"Y", "I", "E", "L", "D">> >>]

\* C17: when the cleaned, upper-cased text contains configured patterns, the
\* normalizer returns exactly the upper-cased first such pattern in list
\* order; when it contains none, it returns the cleaned upper-cased text; with
\* patterns ["STOP", "YIELD"] the input "stop sign" yields exactly "STOP".
C17_PatternPrecedence ==
    call.fn = "_postprocess_text" =>
        LET cleaned == CleanedUpper(call.text, call.cfg)
            patterns == call.cfg.known_patterns
            hits == {k \in DOMAIN patterns : Contains(Upper(patterns[k]), cleaned)}
        IN /\ ~call.out.raised
           /\ call.out.value =
                 IF hits = {} THEN cleaned
                 ELSE Upper(patterns[CHOOSE k \in hits : \A j \in hits : k <= j])
           /\ PostprocessText(<<"s", "t", "o", "p", " ", "s", "i", "g", "n">>,
                              TestPostConfig)
                = Returned(<<"S", "T", "O", "P">>)

\* C18: recognize_text keeps exactly the engine words whose stripped text is
\* non-empty and whose confidence is > 0, in engine order: raw_text is those
\* words joined by single spaces, word_count their number, confidence the mean
\* of their confidences divided by 100 (within [0,1]), text the normalized
\* raw_text; when no word survives the result is text "", raw_text "",
\* confidence 0.0, word_count 0.
C18_RecognitionAdapter ==
    (call.fn = "recognize_text" /\ ~call.engine.raises) =>
        LET kept == SelectSeq(call.engine.words, WordKept)
            joined == JoinSpace([k \in DOMAIN kept |-> Strip(kept[k].text)])
            result == call.out.value
        IN /\ ~call.out.raised
           /\ result.raw_text = joined
           /\ result.word_count = Len(kept)
           /\ result.confidence.d > 0
           /\ 0 <= result.confidence.n /\ result.confidence.n <= result.confidence.d
           /\ kept # <<>> =>
                 result.confidence.n * 100 * Len(kept)
                     = SumConf(kept) * result.confidence.d
           /\ kept = <<>> => result = EmptyRecognition
           /\ ~PostprocessText(joined, call.cfg).raised
           /\ result.text = PostprocessText(joined, call.cfg).value

SuccessKeys ==
    {"image_shape", "detections_count", "results", "processing_time", "pipeline_version"}

ErrorKeys == {"error", "detections_count", "results", "processing_time"}

\* the positions of the candidates of a frame for which recognition raises
OcrRaisers(fr) ==
    {k \in DOMAIN fr.scene.cands : fr.scene.cands[k].geom
                                      /\ fr.scene.cands[k].ocr = "raise"}

\* the frame ends in the except clause of predict_image for another reason
FailsElsewhere(fr) == PreprocessRaises(fr.image) \/ SceneFails(fr.scene)

\* C19: when the text-recognition engine raises for a candidate,
\* recognize_text returns the zero-confidence empty result instead of raising:
\* predict_image does not end in its except clause because of it, and its
\* success Frame Result holds a Prediction Record for that candidate (with the
\* empty result) and for every other surviving candidate.
C19_RecognitionFailureContained ==
    \A f \in Frames :
        LET fr == frame[f] IN
        /\ (fr.stage \in {"ERROR", "RAISED"} \/ (fr.stage = "DONE" /\ "error" \in fr.ret.keys))
              => FailsElsewhere(fr)
        /\ (fr.stage = "DONE" /\ ~FailsElsewhere(fr)) =>
              /\ fr.ret.keys = SuccessKeys
              /\ Len(fr.ret.results) = Len(Detections(fr.scene))
              /\ \A k \in DOMAIN fr.ret.results :
                    /\ fr.ret.results[k].pos = Detections(fr.scene)[k]
                    /\ fr.ret.results[k].pos \in OcrRaisers(fr) =>
                          /\ fr.ret.results[k].ocr = EmptyOcr
                          /\ ~fr.ret.results[k].has_text

C19_Witness ==
    LET fr == frame[LibCaller] IN
    /\ fr.stage = "DONE" /\ fr.ret.keys = SuccessKeys
    /\ Len(fr.ret.results) = 2
    /\ fr.ret.results[1].pos \in OcrRaisers(fr) /\ fr.ret.results[1].ocr = EmptyOcr
    /\ fr.ret.results[2].has_text

\* C20: a failure local to one candidate of an image (extraction, enhancement,
\* recognition or normalization) never aborts the processing of its siblings:
\* once preprocessing and detection have succeeded, the Frame Result holds a
\* Prediction Record for every accepted candidate whose own processing does
\* not fail, whatever happened to the other candidates of the image.
C20_CandidateIsolation ==
    \A f \in Frames :
        LET fr == frame[f] IN
        (/\ fr.stage = "DONE"
         /\ ~PreprocessRaises(fr.image) /\ ~DetectRaises(fr.scene))
        => \A k \in DOMAIN fr.scene.cands :
               (fr.scene.cands[k].geom /\ fr.scene.cands[k].enh = "ok")
               => \E j \in DOMAIN fr.ret.results : fr.ret.results[j].pos = k

\* the detector positions of the records of a results list
Positions(results) == [k \in DOMAIN results |-> results[k].pos]

\* C21: within a success Frame Result, results lists the Prediction Records of
\* the validated candidates in the order in which the detector yielded them:
\* the list only ever grows at its end, by the next validated candidate, and
\* the returned list is the validated candidates in detector order.
C21_DetectorOrderKept ==
    /\ [](\A f \in Frames :
            LET fr == frame[f] IN
            /\ \A j, k \in DOMAIN fr.results :
                  j < k => fr.results[j].pos < fr.results[k].pos
            /\ (fr.stage = "DONE" /\ fr.ret.keys = SuccessKeys)
                  => Positions(fr.ret.results) = ValidatedFrom(fr.scene.cands, 1))
    /\ [][\A f \in Frames :
            (frame'[f].results # frame[f].results /\ frame'[f].results # <<>>)
            => /\ Len(frame'[f].results) = Len(frame[f].results) + 1
               /\ SubSeq(frame'[f].results, 1, Len(frame[f].results))
                    = frame[f].results]_vars

C21_Witness ==
    LET fr == frame[LibCaller] IN
    /\ fr.stage = "DONE" /\ fr.ret.keys = SuccessKeys
    /\ Len(fr.scene.cands) = 2
    /\ Positions(fr.ret.results) = <<1, 2>>
    /\ fr.ret.results[1].ocr = EmptyOcr /\ fr.ret.results[2].has_text

\* the candidates of a scene that _validate_detection rejects
Rejected(scene) == {k \in DOMAIN scene.cands : ~scene.cands[k].geom}

\* C22: a candidate rejected by the geometry validator is silently dropped: it
\* is never extracted, enhanced or recognized, never appears in results, is
\* not counted in detections_count, and its rejection never makes the Frame
\* Result the error variant.
C22_RejectedDropped ==
    \A f \in Frames :
        LET fr == frame[f] IN
        /\ \A k \in DOMAIN fr.detections : fr.detections[k] \notin Rejected(fr.scene)
        /\ fr.stage \in {"EXTRACTED", "ENHANCED"}
              => fr.detections[fr.idx] \notin Rejected(fr.scene)
        /\ \A k \in DOMAIN fr.results : fr.results[k].pos \notin Rejected(fr.scene)
        /\ fr.stage = "DONE" =>
              /\ \A k \in DOMAIN fr.ret.results :
                    fr.ret.results[k].pos \notin Rejected(fr.scene)
              /\ fr.ret.keys = SuccessKeys =>
                    fr.ret.detections_count
                        = Len(fr.scene.cands) - Cardinality(Rejected(fr.scene))
              /\ "error" \in fr.ret.keys => FailsElsewhere(fr)

C22_Witness ==
    LET fr == frame[LibCaller] IN
    /\ fr.stage = "DONE" /\ fr.ret.keys = SuccessKeys
    /\ Len(fr.scene.cands) = 2 /\ Rejected(fr.scene) = {1}
    /\ fr.scene.cands[1].enh = "raise"
    /\ fr.ret.detections_count = 1 /\ Positions(fr.ret.results) = <<2>>

\* C23: emitting the experiment-tracking record is best-effort: whether or not
\* a tracker call raises, predict_image returns the success Frame Result built
\* before the emission; an emitted meets_performance_target is 1 exactly when
\* processing_time is at most the two-second target.
C23_TrackingBestEffort ==
    /\ [](\A f \in Frames :
            frame[f].tracked.emitted =>
                /\ frame[f].ret.keys = SuccessKeys
                /\ (frame[f].tracked.meets_performance_target = 1
                        <=> frame[f].ret.processing_time <= target_time)
                /\ (frame[f].tracked.meets_performance_target = 0
                        <=> frame[f].ret.processing_time > target_time))
    /\ [][\A f \in Frames :
            (/\ frame[f].stage = "DETECTED"
             /\ frame[f].idx > Len(frame[f].detections)
             /\ frame'[f] # frame[f])
            => /\ frame'[f].stage = "DONE"
               /\ \E t \in Times : frame'[f].ret = SuccessRet(frame[f], t)]_vars

C23_Witness ==
    LET fr == frame[LibCaller] IN
    /\ fr.stage = "DONE" /\ fr.ret.keys = SuccessKeys
    /\ ~fr.tracked.emitted
    /\ fr.ret.detections_count = 2 /\ fr.ret.processing_time > target_time

StageRaises(fr) ==
    \/ fr.stage = "RECEIVED" /\ PreprocessRaises(fr.image)
    \/ fr.stage = "PREPROCESSED" /\ DetectRaises(fr.scene)
    \/ fr.stage = "EXTRACTED" /\ CurCand(fr).enh = "raise"

\* the steps the per-request state machine allows from one frame to the next
StageStep(fr, nx) ==
    \/ fr.stage = "IDLE" /\ nx.stage = "RECEIVED"
    \/ fr.stage = "RECEIVED" /\ nx.stage = "PREPROCESSED" /\ nx.detections = <<>>
    \/ /\ fr.stage = "PREPROCESSED" /\ nx.stage = "DETECTED"
       /\ nx.idx = 1 /\ nx.results = <<>>
    \/ /\ fr.stage = "DETECTED" /\ fr.idx <= Len(fr.detections)
       /\ nx.stage = "EXTRACTED" /\ nx.idx = fr.idx /\ nx.results = fr.results
    \/ /\ fr.stage = "EXTRACTED"
       /\ nx.stage = "ENHANCED" /\ nx.idx = fr.idx /\ nx.results = fr.results
    \/ /\ fr.stage = "ENHANCED" /\ nx.stage = "DETECTED" /\ nx.idx = fr.idx + 1
       /\ Len(nx.results) = Len(fr.results) + 1
       /\ nx.results[Len(nx.results)].pos = fr.detections[fr.idx]
    \/ /\ fr.stage = "DETECTED" /\ fr.idx > Len(fr.detections)
       /\ nx.stage = "DONE" /\ nx.ret.keys = SuccessKeys
    \/ /\ fr.stage \in {"RECEIVED", "PREPROCESSED", "EXTRACTED"}
       /\ nx.stage = "ERROR"
    \/ /\ fr.stage = "ERROR" /\ nx.stage = "DONE" /\ nx.ret.keys = ErrorKeys
       /\ nx.ret.results = <<>> /\ nx.tracked = fr.tracked
    \/ fr.stage = "DONE" /\ nx.stage = "IDLE"

\* C25: a predict_image call follows the per-request state machine:
\* preprocessing, then detection and validation, then for each surviving
\* candidate extract, enhance, recognize and fusion; it always ends, in exactly
\* one of the success and the error Frame Result; once a stage raises the call
\* is in ERROR, no later stage runs and no tracking record is emitted.
C25_RequestStateMachine ==
    /\ [][\A f \in Frames :
            frame'[f] # frame[f] =>
                /\ StageStep(frame[f], frame'[f])
                /\ StageRaises(frame[f]) => frame'[f].stage = "ERROR"]_vars
    /\ [](\A f \in Frames :
            /\ frame[f].stage = "DONE"
                  => (frame[f].ret.keys = SuccessKeys) # (frame[f].ret.keys = ErrorKeys)
            /\ (frame[f].stage = "ERROR"
                 \/ (frame[f].stage = "DONE" /\ frame[f].ret.keys = ErrorKeys))
                  => ~frame[f].tracked.emitted)
    /\ (frame[LibCaller].stage = "RECEIVED") ~> (frame[LibCaller].stage = "DONE")

C25_Witness ==
    LET fr == frame[LibCaller] IN
    /\ fr.stage = "ERROR"
    /\ Len(fr.detections) = 2 /\ fr.idx = 2 /\ Len(fr.results) = 1
    /\ ~fr.tracked.emitted

\* C26: with remove_special_chars true and no known pattern matching, the
\* output of _postprocess_text holds only alphanumerics, spaces, hyphens and
\* slashes, it is the upper-cased input with the other characters and the
\* redundant whitespace removed, and "ST0P!" gives "ST0P".
C26_StripKeepsAllowed ==
    (/\ call.fn = "_postprocess_text"
     /\ call.cfg.remove_special_chars
     /\ \A k \in DOMAIN call.cfg.known_patterns :
           ~Contains(Upper(call.cfg.known_patterns[k]),
                     CleanedUpper(call.text, call.cfg)))
    => /\ ~call.out.raised
       /\ \A k \in DOMAIN call.out.value : KeptChar(call.out.value[k])
       /\ call.out.value = Upper(JoinSpace(Split(SelectSeq(call.text, KeptChar))))
       /\ PostprocessText(<<"S", "T", "0", "P", "!">>, TestPostConfig)
            = Returned(<<"S", "T", "0", "P">>)

\* the place of each enhancement step in the order the spec gives
StepRank(step) ==
    CASE step = "grayscale" -> 1 [] step = "denoise" -> 2 [] step = "contrast" -> 3
      [] step = "brightness" -> 4 [] step = "resize" -> 5 [] step = "threshold" -> 6

\* C27: for a non-empty ROI the enhancer returns a single-channel buffer of
\* height at least min_height: an ROI of height h < min_height comes back with
\* height min_height and width floor(w * min_height / h), a higher one keeps
\* its size, and the upscale runs after the grayscale, denoise, contrast and
\* brightness steps and before the binarization.
C27_EnhancerUpscale ==
    (call.fn = "preprocess_roi_for_ocr" /\ call.roi.h > 0 /\ call.roi.w > 0) =>
        /\ ~call.out.raised
        /\ LET roi == call.roi
               out == call.out.value
               min_height == call.cfg.min_height
           IN /\ out.channels = 1
              /\ out.h >= min_height
              /\ roi.h < min_height =>
                    /\ out.h = min_height
                    /\ out.w = (roi.w * min_height) \div roi.h
              /\ roi.h >= min_height => (out.h = roi.h /\ out.w = roi.w)
              /\ \A j, k \in DOMAIN out.steps :
                    j < k => StepRank(out.steps[j]) < StepRank(out.steps[k])
              /\ ("resize" \in {out.steps[k] : k \in DOMAIN out.steps})
                    <=> roi.h < min_height

\* C28: in every Frame Result that predict_image returns, detections_count
\* equals len(results): in the success variant both are the number of
\* candidates that passed the geometry validation, in the error variant both
\* are 0, whatever had been processed before the failure.
C28_CountMatchesResults ==
    \A f \in Frames :
        LET fr == frame[f] IN
        fr.stage = "DONE" =>
            /\ fr.ret.detections_count = Len(fr.ret.results)
            /\ fr.ret.keys = SuccessKeys =>
                  fr.ret.detections_count = Len(ValidatedFrom(fr.scene.cands, 1))
            /\ fr.ret.keys = ErrorKeys =>
                  (fr.ret.detections_count = 0 /\ fr.ret.results = <<>>)

C28_Witness ==
    LET fr == frame[LibCaller] IN
    /\ fr.stage = "DONE" /\ fr.ret.keys = ErrorKeys
    /\ Len(fr.results) = 1 /\ Len(fr.detections) = 2
    /\ fr.ret.detections_count = 0 /\ Len(fr.ret.results) = 0

\* the success responses a finished request delivered to its client
Delivered(r) ==
    IF r.resp.code # 200 THEN 0
    ELSE Cardinality({k \in DOMAIN r.resp.entries : r.resp.entries[k].success})

\* C29: statistics count only delivered successes: every finished request
\* raised total_predictions by the number of success responses it delivered
\* (a 200 single prediction, the success entries of a batch), and a request
\* that delivered none, whatever its error, left the three counters as they
\* were.
C29_StatsCountDelivered ==
    \A c \in Clients :
        (req[c].st = "done" /\ req[c].kind \in {"predict", "batch"}) =>
            /\ req[c].resp.counted = Delivered(req[c])
            /\ Delivered(req[c]) = 0 => ~req[c].resp.touched

\* C30: whether the pipeline is loaded is decided once, at startup: after
\* startup_event no step of any handler changes the pipeline handle (or the
\* model inside it), so every health and metrics answer reports the status it
\* would report now: a degraded service never becomes healthy and a healthy
\* one never becomes degraded.
C30_PipelineFixedAfterStartup ==
    /\ [][started => (pipeline' = pipeline /\ yolo_model' = yolo_model)]_vars
    /\ [](\A c \in Clients :
            /\ (req[c].st = "done" /\ req[c].kind = "health") =>
                  /\ req[c].resp.info.status
                        = (IF pipeline = "None" THEN "degraded" ELSE "healthy")
                  /\ req[c].resp.info.pipeline_loaded = (pipeline # "None")
            /\ (req[c].st = "done" /\ req[c].kind = "metrics") =>
                  req[c].resp.info.pipeline_status
                        = (IF pipeline = "None" THEN "not_loaded" ELSE "loaded"))

C30_Witness ==
    /\ started /\ pipeline = "obj"
    /\ app_stats.total_predictions >= 2
    /\ \E c \in Clients :
        /\ req[c].st = "done" /\ req[c].kind = "health"
        /\ req[c].resp.info.status = "healthy"
        /\ req[c].resp.info.total_predictions >= 2

\* C10: for every input, RoadSignInferencePipeline.predict_image never lets an
\* exception out and returns exactly one of the two Frame Result variants: the
\* success variant, or the error variant with detections_count 0, results []
\* and a processing_time.
C10_FrameResultVariants ==
    \A f \in Frames :
        /\ frame[f].stage # "RAISED"
        /\ frame[f].stage = "DONE" =>
            \/ frame[f].ret.keys = SuccessKeys
            \/ /\ frame[f].ret.keys = ErrorKeys
               /\ frame[f].ret.detections_count = 0
               /\ frame[f].ret.results = <<>>
               /\ frame[f].ret.processing_time \in Times

C10_Witness ==
    /\ frame[LibCaller].stage = "DONE"
    /\ frame[LibCaller].image = "None"
    /\ "error" \in frame[LibCaller].ret.keys
====
